---- MODULE Spec2Model ----
(***************************************************************************)
(* The example host program (examples/example.cpp, function main) driving  *)
(* the swc boundary: swc::transpile, swc::compile_file, swc::minify_js and *)
(* swc::free_string.  main is modelled statement by statement; the         *)
(* boundary operations, whose code lives in ../swc.h and the engine behind *)
(* it, are modelled from their documented contract.                        *)
(***************************************************************************)
EXTENDS Integers, Sequences, FiniteSets, TLC

\* Number of heap addresses the allocator can hand out in one process.
MaxAddr == 3
\* Largest argc tried.
MaxArgc == 3
\* Number of times the program is run on the same inputs.
MaxRuns == 2

\* nullptr
NULL == 0
Addresses == 1..MaxAddr
\* A pointer value that is neither null nor an address the allocator hands out.
WILD == MaxAddr + 1
Pointers == {NULL, WILD} \cup Addresses

\* What the file named by argv[1] is: unreadable, readable but not parseable,
\* readable and well-formed.
Files == {"missing", "malformed", "valid"}

\* Value of status while main has not returned (main returns 0 or 1).
Running == -1

NoOrigin == [op |-> "none", kind |-> "none"]
NoPrev == [trace |-> <<"none">>, status |-> Running, pc |-> "none"]

NoArg == [ptr |-> NULL, st |-> "none", origin |-> NoOrigin]


VARIABLES
    argc,       \* main's argc
    file,       \* what argv[1] names
    pc,         \* the line main is about to execute, "done" or "crashed"
    error,      \* char *error (line 33)
    code,       \* auto code (line 34)
    tmp,        \* the temporary holding compile_file's result (line 35)
    js_code,    \* auto js_code (line 35)
    heap,       \* per address: "unused", "live" or "released"
    origin,     \* per address: the operation that allocated it and what it holds
    relCount,   \* per address: number of free_string calls applied to it
    failed,     \* the boundary operations that failed in this run
    minifyArg,  \* the source argument minify_js was invoked with
    frees,      \* the free_string calls made: line, argument, argument's state
    reads,      \* the Handles streamed to output: line, pointer, pointer's state
    shown,      \* what line 41 displayed
    trace,      \* the boundary calls and branches of this run, in order
    status,     \* main's exit status
    prev,       \* trace and status of the previous run on the same inputs
    run         \* number of the current run

vars == <<argc, file, pc, error, code, tmp, js_code, heap, origin, relCount,
          failed, minifyArg, frees, reads, shown, trace, status, prev, run>>

locals == <<error, code, tmp, js_code>>
hist == <<failed, minifyArg, frees, reads, shown>>
inputs == <<argc, file, prev, run>>

----------------------------------------------------------------------------
\* The boundary (String Ownership Manager, Error Channel, Dispatcher).

\* The state of a pointer value with respect to the heap h.
PtrState(h, p) ==
    IF p = NULL THEN "null"
    ELSE IF p \in Addresses THEN h[p]
    ELSE "wild"

\* allocate: a fresh owned string at an address never handed out before.
FreshAddrs(h) == {a \in Addresses : h[a] = "unused"}

allocate(h, a) == [h EXCEPT ![a] = "live"]

\* release: frees the backing storage of a live Handle.  Any other argument
\* is caller misuse; the heap is left as it is when the call survives.
release(h, p) ==
    IF PtrState(h, p) = "live" THEN [h EXCEPT ![p] = "released"] ELSE h

\* The engine's verdict on compile_file(argv[1]).
CompileOutcome(f) ==
    CASE f = "valid" -> "ok"
      [] f = "missing" -> "IOError"
      [] f = "malformed" -> "ParseError"

\* The engine's verdict on minify_js(source): source must be an owned string
\* holding JavaScript; anything else is not valid JS.
MinifyOutcome(h, o, p) ==
    IF PtrState(h, p) = "live" /\ o[p].kind = "code" THEN "ok" ELSE "ParseError"

\* The engine's verdict on transpile("test.ts", ts_code): ts_code is the
\* well-formed TypeScript literal of lines 19-30.
TranspileOutcome == "ok"

----------------------------------------------------------------------------
\* main, line by line.

Init ==
    /\ argc \in 1..MaxArgc
    /\ file \in Files
    /\ pc = "L10"
    /\ error = NULL /\ code = NULL /\ tmp = NULL /\ js_code = NULL
    /\ heap = [a \in Addresses |-> "unused"]
    /\ origin = [a \in Addresses |-> NoOrigin]
    /\ relCount = [a \in Addresses |-> 0]
    /\ failed = {}
    /\ minifyArg = NoArg
    /\ frees = <<>>
    /\ reads = <<>>
    /\ shown = NoOrigin
    /\ trace = <<>>
    /\ status = Running
    /\ prev = NoPrev
    /\ run = 1

\* Lines 10-17: with no file argument, print the usage message and return 1.
Usage ==
    /\ pc = "L10"
    /\ argc < 2
    /\ pc' = "done"
    /\ status' = 1
    /\ trace' = Append(trace, "usage")
    /\ UNCHANGED <<locals, heap, origin, relCount, hist, inputs>>

\* Line 33: char *error; declared without an initializer, so its value is
\* whatever the slot happens to hold.
DeclareError ==
    /\ pc = "L10"
    /\ argc >= 2
    /\ error' \in Pointers
    /\ pc' = "L34"
    /\ UNCHANGED <<code, tmp, js_code, heap, origin, relCount, hist, trace,
                   status, inputs>>

\* Line 34: auto code = swc::transpile(file_name, ts_code); no error slot.
Transpile ==
    /\ pc = "L34"
    /\ TranspileOutcome = "ok"
    /\ \E a \in FreshAddrs(heap) :
        /\ heap' = allocate(heap, a)
        /\ origin' = [origin EXCEPT ![a] = [op |-> "transpile", kind |-> "code"]]
        /\ code' = a
    /\ trace' = Append(trace, "transpile")
    /\ pc' = "L35a"
    /\ UNCHANGED <<error, tmp, js_code, relCount, hist, status, inputs>>

\* Line 35, inner call: swc::compile_file(argv[1], error).  On success the
\* result is an owned string and the slot is left untouched; on failure the
\* slot receives a newly allocated diagnostic and the result is null.
CompileFile ==
    /\ pc = "L35a"
    /\ LET out == CompileOutcome(file) IN
       \E a \in FreshAddrs(heap) :
        /\ heap' = allocate(heap, a)
        /\ origin' = [origin EXCEPT ![a] =
               [op |-> "compile_file", kind |-> IF out = "ok" THEN "code" ELSE out]]
        /\ IF out = "ok"
           THEN tmp' = a /\ error' = error /\ failed' = failed
           ELSE tmp' = NULL /\ error' = a /\ failed' = failed \cup {"compile_file"}
    /\ trace' = Append(trace, "compile_file")
    /\ pc' = "L35b"
    /\ UNCHANGED <<code, js_code, relCount, minifyArg, frees, reads, shown,
                   status, inputs>>

\* Line 35, outer call: swc::minify_js(<compile_file's result>, error), made
\* whatever compile_file returned.
MinifyJs ==
    /\ pc = "L35b"
    /\ minifyArg' = [ptr |-> tmp, st |-> PtrState(heap, tmp),
                     origin |-> IF tmp \in Addresses THEN origin[tmp] ELSE NoOrigin]
    /\ LET out == MinifyOutcome(heap, origin, tmp) IN
       \E a \in FreshAddrs(heap) :
        /\ heap' = allocate(heap, a)
        /\ origin' = [origin EXCEPT ![a] =
               [op |-> "minify_js", kind |-> IF out = "ok" THEN "code" ELSE out]]
        /\ IF out = "ok"
           THEN js_code' = a /\ error' = error /\ failed' = failed
           ELSE js_code' = NULL /\ error' = a /\ failed' = failed \cup {"minify_js"}
    /\ trace' = Append(trace, "minify_js")
    /\ pc' = "L38"
    /\ UNCHANGED <<code, tmp, relCount, frees, reads, shown, status, inputs>>

\* Where control goes after streaming the pointer p: on to nxt when p is a
\* live string; otherwise the read is undefined and may also fault.
AfterUse(h, p, nxt) ==
    IF PtrState(h, p) = "live" THEN {nxt} ELSE {nxt, "crashed"}

\* Lines 37-38: print the input and the transpiled code.
PrintCode ==
    /\ pc = "L38"
    /\ reads' = Append(reads, [line |-> 38, ptr |-> code, st |-> PtrState(heap, code)])
    /\ pc' \in AfterUse(heap, code, "L40")
    /\ UNCHANGED <<locals, heap, origin, relCount, failed, minifyArg, frees,
                   shown, trace, status, inputs>>

\* Line 40: if (error != nullptr)
Branch ==
    /\ pc = "L40"
    /\ IF error # NULL
       THEN pc' = "L41" /\ trace' = Append(trace, "branch_error")
       ELSE pc' = "L44" /\ trace' = Append(trace, "branch_ok")
    /\ UNCHANGED <<locals, heap, origin, relCount, hist, status, inputs>>

\* Line 41: print the diagnostic.
PrintError ==
    /\ pc = "L41"
    /\ reads' = Append(reads, [line |-> 41, ptr |-> error, st |-> PtrState(heap, error)])
    /\ shown' = IF PtrState(heap, error) = "live" THEN origin[error]
                ELSE [op |-> "none", kind |-> "garbage"]
    /\ pc' \in AfterUse(heap, error, "L42")
    /\ UNCHANGED <<locals, heap, origin, relCount, failed, minifyArg, frees,
                   trace, status, inputs>>

\* Line 44: print the minified code.
PrintJsCode ==
    /\ pc = "L44"
    /\ reads' = Append(reads, [line |-> 44, ptr |-> js_code, st |-> PtrState(heap, js_code)])
    /\ pc' \in AfterUse(heap, js_code, "L47")
    /\ UNCHANGED <<locals, heap, origin, relCount, failed, minifyArg, frees,
                   shown, trace, status, inputs>>

\* swc::free_string(p) called at the given line, continuing at nxt.
FreeString(line, p, nxt) ==
    /\ frees' = Append(frees, [line |-> line, ptr |-> p, st |-> PtrState(heap, p)])
    /\ heap' = release(heap, p)
    /\ relCount' = IF p \in Addresses THEN [relCount EXCEPT ![p] = @ + 1]
                   ELSE relCount
    /\ trace' = Append(trace, "free_string")
    /\ pc' \in AfterUse(heap, p, nxt)
    /\ UNCHANGED <<locals, origin, failed, minifyArg, reads, shown, status, inputs>>

\* Line 42: swc::free_string(error);
FreeError == pc = "L42" /\ FreeString(42, error, "L47")

\* Line 47: swc::free_string(code);
FreeCode == pc = "L47" /\ FreeString(47, code, "L48")

\* Line 48: swc::free_string(js_code);
FreeJsCode == pc = "L48" /\ FreeString(48, js_code, "L50")

\* Line 50 as it would read if the diagnostic path returned a failure status.
ReturnMainFailing ==
    /\ pc = "L50"
    /\ pc' = "done"
    /\ status' = IF failed # {} THEN 1 ELSE 0
    /\ UNCHANGED <<locals, heap, origin, relCount, hist, trace, inputs>>

\* Line 50: return 0;
ReturnMain ==
    /\ pc = "L50"
    /\ pc' = "done"
    /\ status' = 0
    /\ UNCHANGED <<locals, heap, origin, relCount, hist, trace, inputs>>

\* The program is run again with the same argv and the same file contents,
\* in a new process: new heap, new stack.
Rerun ==
    /\ pc \in {"done", "crashed"}
    /\ run < MaxRuns
    /\ run' = run + 1
    /\ prev' = [trace |-> trace, status |-> status, pc |-> pc]
    /\ pc' = "L10"
    /\ error' = NULL /\ code' = NULL /\ tmp' = NULL /\ js_code' = NULL
    /\ heap' = [a \in Addresses |-> "unused"]
    /\ origin' = [a \in Addresses |-> NoOrigin]
    /\ relCount' = [a \in Addresses |-> 0]
    /\ failed' = {}
    /\ minifyArg' = NoArg
    /\ frees' = <<>>
    /\ reads' = <<>>
    /\ shown' = NoOrigin
    /\ trace' = <<>>
    /\ status' = Running
    /\ UNCHANGED <<argc, file>>

Next ==
    \/ Usage
    \/ DeclareError
    \/ Transpile
    \/ CompileFile
    \/ MinifyJs
    \/ PrintCode
    \/ Branch
    \/ PrintError
    \/ PrintJsCode
    \/ FreeError
    \/ FreeCode
    \/ FreeJsCode
    \/ ReturnMain
    \/ Rerun

Spec == Init /\ [][Next]_vars

TypeOK ==
    /\ argc \in 1..MaxArgc
    /\ file \in Files
    /\ error \in Pointers /\ code \in Pointers /\ tmp \in Pointers /\ js_code \in Pointers
    /\ status \in {Running, 0, 1}
    /\ run \in 1..MaxRuns

----------------------------------------------------------------------------
\* Properties of main.

Taken(step) == \E i \in DOMAIN trace : trace[i] = step

\* The branch of line 40 recorded in a trace, if any.
BranchOf(t) == {t[i] : i \in DOMAIN t} \cap {"branch_error", "branch_ok"}

IsResult(a) == origin[a].kind = "code"
IsDiagnostic(a) == origin[a].kind \in {"IOError", "ParseError"}

\* C1: when main returns after a run with argc >= 2, every Handle returned by
\* transpile, compile_file or minify_js has been released exactly once.
C1_ResultsReleasedOnce ==
    (pc = "done" /\ argc >= 2) =>
        \A a \in Addresses : IsResult(a) => relCount[a] = 1

\* C2: no Handle is touched after its release: no free_string call, no print
\* and no call of minify_js is applied to a Handle already released.
C2_NoUseAfterRelease ==
    /\ \A i \in DOMAIN frees : frees[i].st # "released"
    /\ \A i \in DOMAIN reads : reads[i].st # "released"
    /\ minifyArg.st # "released"

\* C3: the test at line 40 is true exactly when compile_file or minify_js
\* failed; when both succeeded the slot holds nullptr at line 40 and main
\* takes the branch that prints js_code.
C3_ErrorIffFailure ==
    /\ Taken("branch_error") => failed # {}
    /\ Taken("branch_ok") => failed = {}
    /\ (pc = "L40" /\ failed = {}) => error = NULL

\* C4: every argument of free_string is, when the call is made, a live Handle
\* produced by the boundary's allocate.
C4_FreeOnlyOwnedHandles ==
    \A i \in DOMAIN frees : frees[i].st = "live"

\* C5: with an unreadable argv[1], compile_file leaves an IOError diagnostic
\* in the slot and returns null; main takes the error branch, displays that
\* diagnostic of compile_file and does not crash.
C5_MissingFileShowsIOError ==
    file = "missing" =>
        /\ pc = "L35b" =>
              /\ tmp = NULL
              /\ PtrState(heap, error) = "live"
              /\ origin[error] = [op |-> "compile_file", kind |-> "IOError"]
        /\ ~Taken("branch_ok")
        /\ shown # NoOrigin => shown = [op |-> "compile_file", kind |-> "IOError"]
        /\ pc # "crashed"

\* C6: two runs on the same argv and the same file contents make the same
\* boundary calls, take the same branch and end with the same exit status.
C6_Deterministic ==
    prev # NoPrev =>
        /\ (BranchOf(trace) # {} /\ BranchOf(prev.trace) # {}) =>
              BranchOf(trace) = BranchOf(prev.trace)
        /\ (pc = "done" /\ prev.pc = "done") =>
              (trace = prev.trace /\ status = prev.status)

\* C7: whenever minify_js is invoked, its source is a live owned string
\* produced by a successful compile_file.
C7_MinifySourceValid ==
    minifyArg.st # "none" =>
        /\ minifyArg.st = "live"
        /\ minifyArg.origin = [op |-> "compile_file", kind |-> "code"]

\* C8: a diagnostic written into the slot is never displaced from it while
\* unreleased, and when main returns every diagnostic has been released
\* exactly once.
C8_DiagnosticsReleasedOnce ==
    /\ \A a \in Addresses : (IsDiagnostic(a) /\ heap[a] = "live") => error = a
    /\ pc = "done" => \A a \in Addresses : IsDiagnostic(a) => relCount[a] = 1

\* C9: every pointer main streams to output (code at line 38, error at line
\* 41, js_code at line 44) is a live owned string when it is printed.
C9_PrintsOnlyValidStrings ==
    \A i \in DOMAIN reads : reads[i].st = "live"

\* C10: with argc < 2 main only prints the usage message and returns 1: no
\* boundary operation is invoked, no Handle allocated or released; with
\* argc >= 2 main returns 0 whenever it returns, diagnostic or not.
C10_UsageAndExitStatus ==
    /\ argc < 2 =>
          /\ pc \in {"L10", "done"}
          /\ trace \in {<<>>, <<"usage">>}
          /\ \A a \in Addresses : heap[a] = "unused" /\ relCount[a] = 0
          /\ frees = <<>> /\ minifyArg = NoArg
          /\ pc = "done" => (status = 1 /\ trace = <<"usage">>)
    /\ (argc >= 2 /\ pc = "done") => status = 0

\* C10's case: a run with a file argument that reported a diagnostic and
\* then returned.
C10_Witness ==
    /\ argc >= 2
    /\ pc = "done"
    /\ failed # {}
    /\ Taken("branch_error")
    /\ shown # NoOrigin

====
